---------------------------- MODULE Spec2Model ----------------------------
(***************************************************************************)
(* A model of plugin.py: the Plugin aggregator (its command registry and   *)
(* the descriptors it hands out), CountCommand.execute and                 *)
(* GreetCommand.execute.                                                   *)
(*                                                                         *)
(* Python objects live in heaps (sequences indexed by object identity), so *)
(* that aliasing between the plugin's registry and what callers hold is    *)
(* something the model can get wrong.  Python values passed as keyword     *)
(* arguments are tagged records [t, s, n].                                 *)
(*                                                                         *)
(* Four specifications share the variables: Spec (the registry and the     *)
(* mappings returned from it), SpecInfo (the descriptors), SpecCount (one  *)
(* call of CountCommand.execute, statement by statement) and SpecGreet     *)
(* (one call of GreetCommand.execute).                                     *)
(***************************************************************************)
EXTENDS Integers, Sequences, FiniteSets, TLC

VARIABLES
    self_commands,  \* Plugin._commands: the identity of the dict it refers to
    dicts,          \* heap of dict objects: identity -> (key -> command identity)
    objs,           \* heap of command objects: identity -> [cls, _name, _help]
    held,           \* what get_commands has returned: [ref: dict identity,
                    \*   at: whether a caller mutation preceded the call]
    infos,          \* heap of PluginInfo objects: identity -> record of six fields
    heldInfos,      \* what get_info has returned, in call order: [ref: PluginInfo
                    \*   identity, at: number of initialize() calls before the call]
    initCount,      \* number of initialize() calls so far
    mutCount,       \* number of caller mutations so far
    pc,             \* position inside the running execute()
    kwargs,         \* the keyword bag of the running execute()
    max_num,        \* CountCommand.execute: local max_num
    i,              \* CountCommand.execute: position of the for loop in its range
                    \*   (0 before the loop; the loop variable is the i-th element)
    name,           \* GreetCommand.execute: local name
    style,          \* GreetCommand.execute: local style
    message,        \* GreetCommand.execute: local message
    console,        \* what has been handed to Console.print, in order
    result          \* outcome of execute: [kind: "none" | "returned" | "raised",
                    \*   value: the value returned, exc: the exception raised]

pluginVars == <<self_commands, dicts, objs, held, infos, heldInfos,
                initCount, mutCount>>
execVars == <<pc, kwargs, max_num, i, name, style, message, console, result>>
vars == <<pluginVars, execVars>>

(***************************************************************************)
(* Bounds of the model.                                                    *)
(***************************************************************************)
MaxInit == 2        \* initialize() calls
MaxCopies == 2      \* get_commands() calls
MaxInfos == 2       \* get_info() calls
MaxMut == 2         \* caller mutations of returned objects

Range(f) == {f[x] : x \in DOMAIN f}

(***************************************************************************)
(* Python values.  A str is the sequence of its characters where it is     *)
(* parsed (CountCommand) and a TLC string where it is only compared and    *)
(* formatted (GreetCommand); a float is finite with n its value in tenths, *)
(* or nan, or inf.                                                         *)
(***************************************************************************)
PyValue(t, s, n) == [t |-> t, s |-> s, n |-> n]
IntV(n) == PyValue("int", <<>>, n)
StrV(s) == PyValue("str", s, 0)
FloatV(tenths) == PyValue("float", <<>>, tenths)
NanV == PyValue("nan", <<>>, 0)
InfV == PyValue("inf", <<>>, 0)
NoneV == PyValue("none", <<>>, 0)
ListV == PyValue("list", <<>>, 0)
Unbound == PyValue("unbound", <<>>, 0)

NoResult == [kind |-> "none", value |-> NoneV, exc |-> ""]
Returned(v) == [kind |-> "returned", value |-> v, exc |-> ""]
Raised(e) == [kind |-> "raised", value |-> NoneV, exc |-> e]

\* kwargs.get(key, default)
Get(kw, key, default) == IF key \in DOMAIN kw THEN kw[key] ELSE default

(***************************************************************************)
(* Commands: BaseCommand.__init__ stores name and help text.               *)
(***************************************************************************)
BaseCommand(cls, nm, help_text) == [cls |-> cls, _name |-> nm, _help |-> help_text]

GreetCommand == BaseCommand("GreetCommand", "greet",
                            "Greet with a custom message from the example plugin")

\* Variant: the count command constructed under another name.
CountCommand_Misnamed == BaseCommand("CountCommand", "counter",
                                     "Count from 1 to a specified number")

CountCommand == BaseCommand("CountCommand", "count",
                            "Count from 1 to a specified number")

get_name(o) == objs[o]._name

(***************************************************************************)
(* Plugin                                                                  *)
(***************************************************************************)
EmptyDict == [k \in {} |-> 0]

PluginInfo(n, v, d, a, c, e) ==
    [name |-> n, version |-> v, description |-> d, author |-> a,
     commands |-> c, entry_point |-> e]

\* Variant: a registry literal that leaves the count command out.
NewCommands_OnlyGreet(g, c) == [k \in {"greet"} |-> g]

\* The dict literal of initialize: g and c are the two fresh command objects.
NewCommands(g, c) == [k \in {"greet", "count"} |-> IF k = "greet" THEN g ELSE c]

\* Variant: a descriptor whose command list is read off the registry.
NewPluginInfo_FromRegistry ==
    PluginInfo("example-plugin", "1.0.0",
               "An example plugin demonstrating VoltMind's plugin system",
               "VoltMind Team",
               IF DOMAIN dicts[self_commands] = {} THEN <<>> ELSE <<"greet", "count">>,
               "plugin.Plugin")

\* The descriptor get_info constructs.
NewPluginInfo ==
    PluginInfo("example-plugin", "1.0.0",
               "An example plugin demonstrating VoltMind's plugin system",
               "VoltMind Team", <<"greet", "count">>, "plugin.Plugin")

\* The registry the plugin currently refers to.
Registry == dicts[self_commands]

\* Plugin.__init__: self._commands = {}
PluginInit ==
    /\ dicts = <<EmptyDict>>
    /\ self_commands = 1
    /\ objs = <<>>
    /\ held = {}
    /\ infos = <<>>
    /\ heldInfos = <<>>
    /\ initCount = 0
    /\ mutCount = 0

ExecIdle ==
    /\ pc = "idle"
    /\ kwargs = EmptyDict
    /\ max_num = Unbound
    /\ i = 0
    /\ name = Unbound
    /\ style = Unbound
    /\ message = ""
    /\ console = <<>>
    /\ result = NoResult

\* Plugin.initialize: two fresh command objects in a fresh dict, bound to _commands.
initialize ==
    /\ initCount < MaxInit
    /\ objs' = objs \o <<GreetCommand, CountCommand>>
    /\ dicts' = Append(dicts, NewCommands(Len(objs) + 1, Len(objs) + 2))
    /\ self_commands' = Len(dicts) + 1
    /\ initCount' = initCount + 1
    /\ UNCHANGED <<held, infos, heldInfos, mutCount>>

\* Variant: return self._commands itself instead of a copy.
get_commands_NoCopy ==
    /\ Cardinality(held) < MaxCopies
    /\ held' = held \cup {[ref |-> self_commands, at |-> (mutCount > 0)]}
    /\ UNCHANGED <<self_commands, dicts, objs, infos, heldInfos, initCount, mutCount>>

\* Plugin.get_commands: self._commands.copy(), a new dict with the same items.
get_commands ==
    /\ Cardinality(held) < MaxCopies
    /\ dicts' = Append(dicts, dicts[self_commands])
    /\ held' = held \cup {[ref |-> Len(dicts) + 1, at |-> (mutCount > 0)]}
    /\ UNCHANGED <<self_commands, objs, infos, heldInfos, initCount, mutCount>>

\* Variant: construct the descriptor once and return that same object on every call.
get_info_Cached ==
    /\ Len(heldInfos) < MaxInfos
    /\ infos' = IF infos = <<>> THEN <<NewPluginInfo>> ELSE infos
    /\ heldInfos' = Append(heldInfos, [ref |-> 1, at |-> initCount])
    /\ UNCHANGED <<self_commands, dicts, objs, held, initCount, mutCount>>

\* Plugin.get_info: a new PluginInfo (with a new commands list) on every call.
get_info ==
    /\ Len(heldInfos) < MaxInfos
    /\ infos' = Append(infos, NewPluginInfo)
    /\ heldInfos' = Append(heldInfos, [ref |-> Len(infos) + 1, at |-> initCount])
    /\ UNCHANGED <<self_commands, dicts, objs, held, initCount, mutCount>>


(***************************************************************************)
(* The caller (the host loader) and what it may do with the objects the    *)
(* plugin returned: a dict is mutable, and PluginInfo is a plain           *)
(* @dataclass (not frozen) whose commands field is a list.                 *)
(***************************************************************************)
Keys == {"greet", "count", "extra"}
ScalarFields == {"name", "version", "description", "author", "entry_point"}

\* Index of the first occurrence of x in list l (x occurs in l).
IndexOf(l, x) == CHOOSE j \in 1..Len(l) : l[j] = x /\ \A m \in 1..(j - 1) : l[m] # x

\* list.remove(x): the list without the first occurrence of x.
ListRemove(l, x) ==
    LET j == IndexOf(l, x)
    IN  [m \in 1..(Len(l) - 1) |-> IF m < j THEN l[m] ELSE l[m + 1]]

\* returned[k] = o on a dict the caller holds; o = 0 is an object of the caller's own.
DictSet(d, k, o) ==
    /\ mutCount < MaxMut
    /\ dicts' = [dicts EXCEPT ![d] =
                    [x \in (DOMAIN dicts[d]) \cup {k} |-> IF x = k THEN o ELSE dicts[d][x]]]
    /\ mutCount' = mutCount + 1
    /\ UNCHANGED <<self_commands, objs, held, infos, heldInfos, initCount>>

\* del returned[k] on a dict the caller holds.
DictDel(d, k) ==
    /\ mutCount < MaxMut
    /\ k \in DOMAIN dicts[d]
    /\ dicts' = [dicts EXCEPT ![d] = [x \in (DOMAIN dicts[d]) \ {k} |-> dicts[d][x]]]
    /\ mutCount' = mutCount + 1
    /\ UNCHANGED <<self_commands, objs, held, infos, heldInfos, initCount>>

\* info.<f> = "changed" on the descriptor the h-th get_info call returned.
InfoSet(h, f) ==
    /\ mutCount < MaxMut
    /\ infos' = [infos EXCEPT ![heldInfos[h].ref] = [@ EXCEPT ![f] = "changed"]]
    /\ mutCount' = mutCount + 1
    /\ UNCHANGED <<self_commands, dicts, objs, held, heldInfos, initCount>>

\* info.commands.append(x)
InfoAppend(h, x) ==
    /\ mutCount < MaxMut
    /\ infos' = [infos EXCEPT ![heldInfos[h].ref].commands = Append(@, x)]
    /\ mutCount' = mutCount + 1
    /\ UNCHANGED <<self_commands, dicts, objs, held, heldInfos, initCount>>

\* info.commands.remove(x), x in the list
InfoRemove(h, x) ==
    /\ mutCount < MaxMut
    /\ x \in Range(infos[heldInfos[h].ref].commands)
    /\ infos' = [infos EXCEPT ![heldInfos[h].ref].commands = ListRemove(@, x)]
    /\ mutCount' = mutCount + 1
    /\ UNCHANGED <<self_commands, dicts, objs, held, heldInfos, initCount>>

CallerMutatesDict ==
    \E d \in {c.ref : c \in held} :
        \/ \E k \in Keys, o \in {0} \cup Range(Registry) : DictSet(d, k, o)
        \/ \E k \in Keys : DictDel(d, k)

CallerMutatesInfo ==
    \E h \in 1..Len(heldInfos) :
        \/ \E f \in ScalarFields : InfoSet(h, f)
        \/ \E x \in {"extra"} : InfoAppend(h, x)
        \/ \E x \in Keys : InfoRemove(h, x)

Init == PluginInit /\ ExecIdle

\* The plugin's registry: initialize, get_commands, and a caller that mutates
\* the mappings get_commands returned.
Next ==
    \/ initialize /\ UNCHANGED execVars
    \/ get_commands /\ UNCHANGED execVars
    \/ CallerMutatesDict /\ UNCHANGED execVars

Spec == Init /\ [][Next]_vars

\* The plugin's descriptor: initialize, get_info, and a caller that mutates the
\* descriptors get_info returned.
NextInfo ==
    \/ initialize /\ UNCHANGED execVars
    \/ get_info /\ UNCHANGED execVars
    \/ CallerMutatesInfo /\ UNCHANGED execVars

SpecInfo == Init /\ [][NextInfo]_vars


(***************************************************************************)
(* Properties of the Plugin aggregator                                     *)
(***************************************************************************)

\* C1: a mapping returned by get_commands() before any initialize() is empty;
\* one returned after at least one initialize() (repeated or not) has exactly
\* the keys "greet" and "count".
C1_GetCommandsKeys ==
    [][\A c \in held' \ held :
          /\ initCount = 0 => dicts'[c.ref] = EmptyDict
          /\ initCount > 0 => DOMAIN dicts'[c.ref] = {"greet", "count"}]_vars

\* A mapping returned before the first initialize() and one returned after the
\* second, neither touched by the caller.
C1_Witness ==
    /\ initCount = 2
    /\ mutCount = 0
    /\ \E a, b \in held :
          /\ a.ref < self_commands
          /\ dicts[a.ref] = EmptyDict
          /\ b.ref > self_commands
          /\ DOMAIN dicts[b.ref] = {"greet", "count"}

\* C2: a caller's mutation of a returned mapping (set a key, delete a key)
\* leaves the plugin's registry as it was, and every get_commands() returns the
\* registry's keys bound to the registry's command objects.
C2_DefensiveCopy ==
    [][/\ mutCount' # mutCount =>
             /\ self_commands' = self_commands
             /\ dicts'[self_commands'] = dicts[self_commands]
       /\ \A c \in held' \ held : dicts'[c.ref] = dicts[self_commands]]_vars

\* A copy taken after the last initialize() that the caller has changed, and a
\* later copy, taken after that change, that equals the registry.
C2_Witness ==
    /\ initCount > 0
    /\ mutCount = 1
    /\ \E a, b \in held :
          /\ self_commands < a.ref
          /\ a.ref < b.ref
          /\ dicts[a.ref] # Registry
          /\ b.at
          /\ dicts[b.ref] = Registry

\* C8: once initialize() has run, the registry's key set is the set of names in
\* the commands list of the descriptor get_info() constructs, and every key is
\* the get_name() of the command bound to it.
C8_NamesMatch ==
    initCount > 0 =>
        /\ DOMAIN Registry = Range(NewPluginInfo.commands)
        /\ \A k \in DOMAIN Registry : get_name(Registry[k]) = k

\* get_info() has been called after the second initialize().
C8_Witness ==
    /\ initCount = 2
    /\ \E h \in 1..Len(heldInfos) :
          /\ heldInfos[h].at = 2
          /\ DOMAIN Registry = Range(infos[heldInfos[h].ref].commands)

\* C9: whatever the number of initialize() calls so far, get_info() returns a
\* descriptor with these six field values, and the call leaves the registry,
\* the command objects and the initialisation state as they were.
C9_GetInfoStatic ==
    [][Len(heldInfos') > Len(heldInfos) =>
          /\ infos'[heldInfos'[Len(heldInfos')].ref] =
                [name |-> "example-plugin",
                 version |-> "1.0.0",
                 description |-> "An example plugin demonstrating VoltMind's plugin system",
                 author |-> "VoltMind Team",
                 commands |-> <<"greet", "count">>,
                 entry_point |-> "plugin.Plugin"]
          /\ self_commands' = self_commands
          /\ dicts' = dicts
          /\ objs' = objs
          /\ initCount' = initCount]_vars

\* One descriptor was returned before any initialize(), another after two; the
\* caller has changed the first in between.
C9_Witness ==
    /\ Len(heldInfos) = 2
    /\ heldInfos[1].at = 0
    /\ heldInfos[2].at = 2
    /\ mutCount > 0
    /\ infos[heldInfos[1].ref] # infos[heldInfos[2].ref]

\* C10 as stated: once get_info() has returned a descriptor, no step changes
\* its field values.
C10_Immutable ==
    [][\A h \in 1..Len(heldInfos) :
          infos'[heldInfos[h].ref] = infos[heldInfos[h].ref]]_vars

\* C10, amended: a returned descriptor is changed by no Plugin operation, only
\* by the caller's own assignment to it, and such a change to one returned
\* descriptor changes no other returned descriptor.
C10_ChangedOnlyByOwnCaller ==
    [][/\ mutCount' = mutCount =>
             \A h \in 1..Len(heldInfos) :
                 infos'[heldInfos[h].ref] = infos[heldInfos[h].ref]
       /\ \A g, h \in 1..Len(heldInfos) :
             (g # h /\ infos'[heldInfos[g].ref] # infos[heldInfos[g].ref])
                 => infos'[heldInfos[h].ref] = infos[heldInfos[h].ref]]_vars

\* Two descriptors are held, the caller has changed the first, and initialize()
\* has run since it was returned.
C10_Witness ==
    /\ Len(heldInfos) = 2
    /\ mutCount > 0
    /\ infos[heldInfos[1].ref] # NewPluginInfo
    /\ infos[heldInfos[2].ref] = NewPluginInfo
    /\ heldInfos[1].at < initCount


(***************************************************************************)
(* CountCommand.execute                                                    *)
(***************************************************************************)
MaxArg == 102       \* largest integer passed as max
MinArg == 3         \* integers passed as max go down to -MinArg

Digits == {"0", "1", "2", "3", "4", "5", "6", "7", "8", "9"}

DigitValue(c) ==
    CASE c = "0" -> 0 [] c = "1" -> 1 [] c = "2" -> 2 [] c = "3" -> 3 [] c = "4" -> 4
      [] c = "5" -> 5 [] c = "6" -> 6 [] c = "7" -> 7 [] c = "8" -> 8 [] c = "9" -> 9

RECURSIVE LStrip(_)
LStrip(cs) == IF cs # <<>> /\ Head(cs) = " " THEN LStrip(Tail(cs)) ELSE cs

RECURSIVE RStrip(_)
RStrip(cs) ==
    IF cs # <<>> /\ cs[Len(cs)] = " " THEN RStrip(SubSeq(cs, 1, Len(cs) - 1)) ELSE cs

RECURSIVE DigitsValue(_)
DigitsValue(ds) ==
    IF ds = <<>> THEN 0
    ELSE DigitsValue(SubSeq(ds, 1, Len(ds) - 1)) * 10 + DigitValue(ds[Len(ds)])

\* int(str): surrounding whitespace is dropped, then an optional sign, then
\* decimal digits, where single underscores may separate digits.
ParseInt(cs) ==
    LET t == RStrip(LStrip(cs))
        signed == t # <<>> /\ Head(t) \in {"+", "-"}
        body == IF signed THEN Tail(t) ELSE t
        wellFormed ==
            /\ body # <<>>
            /\ \A j \in 1..Len(body) : body[j] \in Digits \cup {"_"}
            /\ body[1] # "_"
            /\ body[Len(body)] # "_"
            /\ \A j \in 1..(Len(body) - 1) : ~(body[j] = "_" /\ body[j + 1] = "_")
        magnitude == DigitsValue(SelectSeq(body, LAMBDA c : c \in Digits))
    IN  IF ~wellFormed THEN [ok |-> FALSE, n |-> 0, exc |-> "ValueError"]
        ELSE [ok |-> TRUE,
              n |-> IF signed /\ Head(t) = "-" THEN 0 - magnitude ELSE magnitude,
              exc |-> ""]

\* int(x) as the builtin does it: an int is itself, a float is truncated
\* towards zero (nan and inf have no integer), a str is parsed, and anything
\* else is no argument for int().
PyInt(x) ==
    CASE x.t = "int" -> [ok |-> TRUE, n |-> x.n, exc |-> ""]
      [] x.t = "float" ->
            [ok |-> TRUE,
             n |-> IF x.n >= 0 THEN x.n \div 10 ELSE 0 - ((0 - x.n) \div 10),
             exc |-> ""]
      [] x.t = "nan" -> [ok |-> FALSE, n |-> 0, exc |-> "ValueError"]
      [] x.t = "inf" -> [ok |-> FALSE, n |-> 0, exc |-> "OverflowError"]
      [] x.t = "str" -> ParseInt(x.s)
      [] OTHER -> [ok |-> FALSE, n |-> 0, exc |-> "TypeError"]

\* Variant: range(start, stop) that leaves its last element out.
PyRange_Short(start, stop) ==
    [k \in 1..(IF stop - 1 > start THEN stop - 1 - start ELSE 0) |-> start + k - 1]

\* range(start, stop) as the sequence of its elements.
PyRange(start, stop) ==
    [k \in 1..(IF stop > start THEN stop - start ELSE 0) |-> start + k - 1]

\* Variant: the lower check lets zero through.
TooSmall_Negative(n) == n < 0

\* if max_num < 1
TooSmall(n) == n < 1

\* Variant: the upper check starts one too late.
TooBig_Late(n) == n > 101

\* if max_num > 100
TooBig(n) == n > 100

\* What is handed to Console.print (Rich markup included).  The two emoji of
\* the source are written as their code points.
MsgPositive == "[red]Please provide a positive number[/red]"
MsgLimit == "[yellow]That's a big number! Limiting to 100[/yellow]"
MsgValid == "[red]Please provide a valid number[/red]"
MsgCounting(n) == "<U+1F522> Counting to " \o ToString(n) \o ":"
MsgItem(k) == "  " \o ToString(k)
MsgFinished(n) == "<U+2705> Finished counting to " \o ToString(n) \o "!"

\* The values a caller passes as max.
SampleStrings ==
    {<<"7">>, <<" ", "1", "2", " ">>, <<"+", "3">>, <<"-", "3">>, <<"0">>,
     <<"1", "5", "0">>, <<"1", "_", "0">>, <<"a", "b", "c">>, <<>>, <<" ">>,
     <<"3", ".", "5">>, <<"1", "_", "_", "0">>, <<"_", "1">>, <<"-", "-", "1">>,
     <<"1", "2", "a">>, <<"+", " ", "3">>}

SampleFloats == {FloatV(0 - 15), FloatV(5), FloatV(9), FloatV(10), FloatV(37), FloatV(1005)}

MaxValues ==
    {IntV(n) : n \in (0 - MinArg)..MaxArg}
        \cup {StrV(cs) : cs \in SampleStrings}
        \cup SampleFloats
        \cup {NanV, InfV, NoneV, ListV}

CountKwargs == {EmptyDict} \cup {[k \in {"max"} |-> v] : v \in MaxValues}

\* execute(**kwargs) is entered: max_num = kwargs.get('max', 5)
CountCall ==
    /\ pc = "idle"
    /\ \E kw \in CountKwargs :
          /\ kwargs' = kw
          /\ max_num' = Get(kw, "max", IntV(5))
    /\ pc' = "try"
    /\ UNCHANGED <<i, name, style, message, console, result>>

\* max_num = int(max_num) inside the try block: a ValueError goes to the
\* handler, any other exception leaves execute.
CountConvert ==
    /\ pc = "try"
    /\ LET r == PyInt(max_num)
       IN  IF r.ok
           THEN /\ max_num' = IntV(r.n)
                /\ pc' = "check"
                /\ result' = result
           ELSE IF r.exc = "ValueError"
           THEN /\ pc' = "except"
                /\ UNCHANGED <<max_num, result>>
           ELSE /\ pc' = "done"
                /\ result' = Raised(r.exc)
                /\ UNCHANGED max_num
    /\ UNCHANGED <<kwargs, i, name, style, message, console>>

\* The two range checks and the header line.
CountCheck ==
    /\ pc = "check"
    /\ IF TooSmall(max_num.n)
       THEN /\ console' = Append(console, MsgPositive)
            /\ result' = Returned(NoneV)
            /\ pc' = "done"
            /\ UNCHANGED max_num
       ELSE LET warned == IF TooBig(max_num.n) THEN Append(console, MsgLimit) ELSE console
                bound == IF TooBig(max_num.n) THEN 100 ELSE max_num.n
            IN  /\ max_num' = IntV(bound)
                /\ console' = Append(warned, MsgCounting(bound))
                /\ pc' = "loop"
                /\ UNCHANGED result
    /\ UNCHANGED <<kwargs, i, name, style, message>>

\* One iteration of: for i in range(1, max_num + 1): print(f"  {i}")
CountLoop ==
    /\ pc = "loop"
    /\ i < Len(PyRange(1, max_num.n + 1))
    /\ i' = i + 1
    /\ console' = Append(console, MsgItem(PyRange(1, max_num.n + 1)[i + 1]))
    /\ UNCHANGED <<pc, kwargs, max_num, name, style, message, result>>

\* The range is exhausted: the completion line, return max_num.
CountFinish ==
    /\ pc = "loop"
    /\ i = Len(PyRange(1, max_num.n + 1))
    /\ console' = Append(console, MsgFinished(max_num.n))
    /\ result' = Returned(max_num)
    /\ pc' = "done"
    /\ UNCHANGED <<kwargs, max_num, i, name, style, message>>

\* except ValueError
CountExcept ==
    /\ pc = "except"
    /\ console' = Append(console, MsgValid)
    /\ result' = Returned(NoneV)
    /\ pc' = "done"
    /\ UNCHANGED <<kwargs, max_num, i, name, style, message>>

NextCount ==
    \/ CountCall /\ UNCHANGED pluginVars
    \/ CountConvert /\ UNCHANGED pluginVars
    \/ CountCheck /\ UNCHANGED pluginVars
    \/ CountLoop /\ UNCHANGED pluginVars
    \/ CountFinish /\ UNCHANGED pluginVars
    \/ CountExcept /\ UNCHANGED pluginVars

SpecCount == Init /\ [][NextCount]_vars


(***************************************************************************)
(* Properties of CountCommand.execute                                      *)
(***************************************************************************)

\* C3: called with an integer max = n, 1 <= n <= 100, or without max (n = 5),
\* execute returns n, and what it printed is the header line, then the count
\* lines for 1, 2, ..., n in this order, then the completion line, and nothing
\* else.
C3_CountsOneToN ==
    \A n \in 1..100 :
        (/\ pc = "done"
         /\ \/ kwargs = [k \in {"max"} |-> IntV(n)]
            \/ kwargs = EmptyDict /\ n = 5)
        => /\ result = [kind |-> "returned", value |-> IntV(n), exc |-> ""]
           /\ console =
                 [k \in 1..(n + 2) |->
                     IF k = 1 THEN "<U+1F522> Counting to " \o ToString(n) \o ":"
                     ELSE IF k = n + 2
                          THEN "<U+2705> Finished counting to " \o ToString(n) \o "!"
                          ELSE "  " \o ToString(k - 1)]

\* execute(max=100) has returned after printing 102 lines.
C3_Witness ==
    /\ pc = "done"
    /\ kwargs = [k \in {"max"} |-> IntV(100)]
    /\ Len(console) = 102
    /\ result.kind = "returned"

\* C4: called with an integer max > 100, the first thing execute prints is the
\* warning, what follows is the output for the bound 100, and it returns 100;
\* no call returns an integer above 100.
C4_ClampsTo100 ==
    /\ (result.kind = "returned" /\ result.value.t = "int") => result.value.n <= 100
    /\ \A n \in 101..MaxArg :
          kwargs = [k \in {"max"} |-> IntV(n)] =>
             /\ console # <<>> =>
                   console[1] = "[yellow]That's a big number! Limiting to 100[/yellow]"
             /\ pc = "done" =>
                   /\ result = [kind |-> "returned", value |-> IntV(100), exc |-> ""]
                   /\ Len(console) = 103
                   /\ console[2] = "<U+1F522> Counting to 100:"
                   /\ \A k \in 1..100 : console[k + 2] = "  " \o ToString(k)
                   /\ console[103] = "<U+2705> Finished counting to 100!"

\* execute(max=MaxArg) has returned 100.
C4_Witness ==
    /\ pc = "done"
    /\ kwargs = [k \in {"max"} |-> IntV(MaxArg)]
    /\ result.value = IntV(100)
    /\ Len(console) = 103

\* C5: called with an integer max < 1 or with a string that is no integer
\* numeral, execute prints one error notice and nothing else (no header, no
\* count line, no completion line) and returns None.
C5_SoftFailure ==
    LET notNumerals ==
            {<<"a", "b", "c">>, <<>>, <<" ">>, <<"3", ".", "5">>, <<"1", "_", "_", "0">>,
             <<"_", "1">>, <<"-", "-", "1">>, <<"1", "2", "a">>, <<"+", " ", "3">>}
        notice(v) ==
            IF v.t = "int" THEN "[red]Please provide a positive number[/red]"
            ELSE "[red]Please provide a valid number[/red]"
    IN  \A v \in {IntV(n) : n \in (0 - MinArg)..0} \cup {StrV(cs) : cs \in notNumerals} :
            kwargs = [k \in {"max"} |-> v] =>
               /\ console \in {<<>>, <<notice(v)>>}
               /\ pc = "done" =>
                     /\ console = <<notice(v)>>
                     /\ result = [kind |-> "returned", value |-> NoneV, exc |-> ""]

\* execute(max="abc") has returned.
C5_Witness ==
    /\ pc = "done"
    /\ kwargs = [k \in {"max"} |-> StrV(<<"a", "b", "c">>)]
    /\ Len(console) = 1
    /\ result.kind = "returned"

\* C6: whether max is absent, an integer, a string, None or a list, execute
\* ends by returning, never by raising.
C6_NeverRaises ==
    (kwargs = EmptyDict \/ kwargs["max"].t \in {"int", "str", "none", "list"})
        => result.kind # "raised"


(***************************************************************************)
(* GreetCommand.execute                                                    *)
(***************************************************************************)

\* str(x), as the f-string substitution {name} applies it.
PyStr(x) ==
    CASE x.t = "str" -> x.s
      [] x.t = "int" -> ToString(x.n)
      [] x.t = "none" -> "None"
      [] x.t = "list" -> "[]"

\* style == 'tag': a value that is no str equals no str.
StyleIs(st, tag) == st.t = "str" /\ st.s = tag

\* Variant: the final else branch picks the formal template.
SelectMessage_ElseFormal(nm, st) ==
    IF StyleIs(st, "formal") \/ ~StyleIs(st, "casual")
    THEN "Good day, " \o PyStr(nm) \o ". I hope you are well."
    ELSE "Hey " \o PyStr(nm) \o "! What's up?"

\* The if / elif / else that picks and fills the template.
SelectMessage(nm, st) ==
    IF StyleIs(st, "formal") THEN "Good day, " \o PyStr(nm) \o ". I hope you are well."
    ELSE IF StyleIs(st, "casual") THEN "Hey " \o PyStr(nm) \o "! What's up?"
    ELSE "Hello there, " \o PyStr(nm) \o "! Nice to see you!"

\* The values a caller passes as name and as style.
GreetNames == {StrV("Ann"), StrV("Bob"), StrV("World"), StrV(""), StrV("formal"),
               IntV(7), NoneV, ListV}
GreetStyles == {StrV("formal"), StrV("casual"), StrV("friendly"), StrV("Formal"),
                StrV("pirate"), StrV(""), IntV(1), NoneV}

GreetKwargs ==
    {kw \in UNION {[D -> GreetNames \cup GreetStyles] : D \in SUBSET {"name", "style"}} :
        /\ "name" \in DOMAIN kw => kw["name"] \in GreetNames
        /\ "style" \in DOMAIN kw => kw["style"] \in GreetStyles}

\* execute(**kwargs) is entered: the two kwargs.get calls.
GreetCall ==
    /\ pc = "idle"
    /\ \E kw \in GreetKwargs :
          /\ kwargs' = kw
          /\ name' = Get(kw, "name", StrV("Friend"))
          /\ style' = Get(kw, "style", StrV("friendly"))
    /\ pc' = "select"
    /\ UNCHANGED <<max_num, i, message, console, result>>

\* message = f"..."
GreetSelect ==
    /\ pc = "select"
    /\ message' = SelectMessage(name, style)
    /\ pc' = "print"
    /\ UNCHANGED <<kwargs, max_num, i, name, style, console, result>>

\* The two console.print calls; the robot emoji is written as its code point.
GreetPrint ==
    /\ pc = "print"
    /\ console' = console \o
          <<"<U+1F916> [bold blue]" \o message \o "[/bold blue]",
            "[dim]This message is brought to you by the Example Plugin![/dim]">>
    /\ pc' = "return"
    /\ UNCHANGED <<kwargs, max_num, i, name, style, message, result>>

\* return message
GreetReturn ==
    /\ pc = "return"
    /\ result' = Returned(StrV(message))
    /\ pc' = "done"
    /\ UNCHANGED <<kwargs, max_num, i, name, style, message, console>>

NextGreet ==
    \/ GreetCall /\ UNCHANGED pluginVars
    \/ GreetSelect /\ UNCHANGED pluginVars
    \/ GreetPrint /\ UNCHANGED pluginVars
    \/ GreetReturn /\ UNCHANGED pluginVars

SpecGreet == Init /\ [][NextGreet]_vars

(***************************************************************************)
(* Properties of GreetCommand.execute                                      *)
(***************************************************************************)

=============================================================================
